---- MODULE Spec2Model ----
(***************************************************************************)
(* go-pipeline: a Pipeline runs a reorderable sequence of named steps,     *)
(* resolving each step's arguments from an ExecutionContext (values by     *)
(* type, plus the initial inputs) and from the recorded step outputs.      *)
(*                                                                         *)
(* Go maps are modelled as functions with a finite DOMAIN (an absent key   *)
(* is a name outside the DOMAIN), slices as sequences; Go indices are      *)
(* 0-based, so slice element i is sequence element i + 1.  A value is a    *)
(* record [t |-> its type, v |-> a token]; tokens number the values in the *)
(* order they enter the value store, so two stored values never coincide.  *)
(***************************************************************************)
EXTENDS Integers, Sequences, FiniteSets, TLC

\* ------------------------------------------------------------------ bounds
MaxSteps == 3
MaxInputCalls == 1
MaxRuns == 2

\* ------------------------------------------------------------- vocabulary
Nil == "nil"

Types == {"string", "int"}

Names == {"A", "B", "C"}

\* a name no AddStep ever registers
UnknownName == "X"

MissingArgPolicyUseLatest == 0
MissingArgPolicyFail == 1

ArgSourceDefault == 0
ArgSourceInitial == 1
ArgSourceFunctionOutput == 2

\* The callables handed to AddStep, by signature: the parameter types
\* (reflect In) and the result types (reflect Out).
Signatures ==
    [ src |-> [In |-> <<>>, Out |-> <<"string", "int">>],
      len |-> [In |-> <<"string">>, Out |-> <<"int">>],
      sink |-> [In |-> <<"string", "string", "string">>, Out |-> <<>>] ]

Callables == DOMAIN Signatures

NumIn(c) == Len(Signatures[c].In)

\* fnType.In(i), i 0-based
In(c, i) == Signatures[c].In[i + 1]

Step(name, callable) == [Name |-> name, Callable |-> callable]

\* The argument types of the calls AddInitialInputs(inputs...)
InputChoices == { <<"int">>, <<"string", "string">> }

\* The (name, callable) pairs AddStep is called with: the name "A" is used
\* for two different callables, so a registry may hold a name twice.
StepChoices ==
    { Step("A", "src"), Step("B", "sink"), Step("C", "len"), Step("A", "len") }

Range(s) == { s[k] : k \in 1..Len(s) }

RECURSIVE SumLens(_, _)
SumLens(f, keys) ==
    IF keys = {} THEN 0
    ELSE LET k == CHOOSE x \in keys : TRUE
         IN  Len(f[k]) + SumLens(f, keys \ {k})

\* a map with one key set (m[k] = v in Go)
MapSet(m, k, v) == [x \in DOMAIN m \cup {k} |-> IF x = k THEN v ELSE m[x]]

\* m[k] of a map of slices: the nil slice for an absent key
SliceAt(m, k) == IF k \in DOMAIN m THEN m[k] ELSE <<>>

EmptyMap == [x \in {} |-> 0]

VARIABLES
    steps,          \* Pipeline.steps
    values,         \* ExecutionContext.values
    initialValues,  \* ExecutionContext.initialValues
    stepOutputs,    \* Pipeline.stepOutputs
    pickCounters,   \* Pipeline.pickCounters
    config,         \* Pipeline.config (set before the run, only read)
    pc,             \* where Execute stands: "idle", "loop", "args"
    pos,            \* Execute's loop index into p.steps (0-based)
    args,           \* executeStep's args resolved so far
    ret,            \* what the last Execute returned, once it has
    calls,          \* the invocations fnValue.Call made in the current run
    runs,           \* how many times Execute was called
    inputCalls      \* how many times AddInitialInputs was called

vars == <<steps, values, initialValues, stepOutputs, pickCounters, config,
          pc, pos, args, ret, calls, runs, inputCalls>>

\* --------------------------------------------------------- ExecutionContext
\* reflect.Value{}: the zero Value returned beside an error
NoValue == [t |-> Nil, v |-> 0]

\* how many values the store holds, over all types
TotalValues(vals) == SumLens(vals, DOMAIN vals)

\* storeValue that puts val in front of the sequence of its type
storeValue_Prepend(vals, val) == MapSet(vals, val.t, <<val>> \o SliceAt(vals, val.t))

\* ExecutionContext.storeValue: append val to the sequence of its type
storeValue(vals, val) == MapSet(vals, val.t, SliceAt(vals, val.t) \o <<val>>)

\* ExecutionContext.StoreResults: storeValue for each result, in order
RECURSIVE StoreResults(_, _)
StoreResults(vals, results) ==
    IF results = <<>> THEN vals
    ELSE StoreResults(storeValue(vals, Head(results)), Tail(results))

\* ExecutionContext.AddInputs: each input goes to its type's sequence and to
\* the initial values; ctx is [values, initialValues]
RECURSIVE AddInputs(_, _)
AddInputs(ctx, inputs) ==
    IF inputs = <<>> THEN ctx
    ELSE AddInputs(
            [values |-> MapSet(ctx.values, Head(inputs).t,
                               SliceAt(ctx.values, Head(inputs).t) \o <<Head(inputs)>>),
             initialValues |-> Append(ctx.initialValues, Head(inputs))],
            Tail(inputs))

\* getValueByIndex that rejects a negative index before it looks for values
getValueByIndex_IndexFirst(vals, t, index) ==
    IF index < 0
    THEN [val |-> NoValue, err |-> "InvalidIndex"]
    ELSE IF t \notin DOMAIN vals \/ Len(vals[t]) = 0
    THEN [val |-> NoValue, err |-> "NotFound"]
    ELSE LET clamped == IF index >= Len(vals[t]) THEN Len(vals[t]) - 1 ELSE index
         IN  [val |-> vals[t][clamped + 1], err |-> Nil]

\* ExecutionContext.getValueByIndex: [val, err]
getValueByIndex(vals, t, index) ==
    IF t \notin DOMAIN vals \/ Len(vals[t]) = 0
    THEN [val |-> NoValue, err |-> "NotFound"]
    ELSE IF index < 0
    THEN [val |-> NoValue, err |-> "InvalidIndex"]
    ELSE LET clamped == IF index >= Len(vals[t]) THEN Len(vals[t]) - 1 ELSE index
         IN  [val |-> vals[t][clamped + 1], err |-> Nil]

\* ------------------------------------------------------ argument resolution
\* reflect's AssignableTo between the concrete types of this model
AssignableTo(valueType, paramType) == valueType = paramType

\* p.pickCounters[t]: 0 for an absent key
PickCounter(pick, t) == IF t \in DOMAIN pick THEN pick[t] ELSE 0

\* resolveArgDefault whose policy Fail fails only when no value of the type
\* is stored
resolveArgDefault_FailIfMissing(policy, vals, pick, paramType) ==
    LET got == getValueByIndex(vals, paramType, PickCounter(pick, paramType))
    IN  IF policy = MissingArgPolicyFail /\ got.err # Nil
        THEN [val |-> NoValue, err |-> "MissingArgument", pick |-> pick]
        ELSE [val |-> got.val, err |-> got.err, pick |-> pick]

\* resolveArgDefault that never advances the pick counter
resolveArgDefault_NoAdvance(policy, vals, pick, paramType) ==
    IF policy = MissingArgPolicyUseLatest
    THEN LET got == getValueByIndex(vals, paramType, PickCounter(pick, paramType))
         IN  [val |-> got.val, err |-> got.err, pick |-> pick]
    ELSE IF policy = MissingArgPolicyFail
    THEN [val |-> NoValue, err |-> "MissingArgument", pick |-> pick]
    ELSE [val |-> NoValue, err |-> "UnknownPolicy", pick |-> pick]

\* resolveArgDefault that advances the pick counter after every successful
\* resolution
resolveArgDefault_AlwaysAdvance(policy, vals, pick, paramType) ==
    IF policy = MissingArgPolicyUseLatest
    THEN LET idx == PickCounter(pick, paramType)
             got == getValueByIndex(vals, paramType, idx)
         IN  IF got.err # Nil
             THEN [val |-> NoValue, err |-> got.err, pick |-> pick]
             ELSE [val |-> got.val, err |-> Nil,
                   pick |-> MapSet(pick, paramType, idx + 1)]
    ELSE IF policy = MissingArgPolicyFail
    THEN [val |-> NoValue, err |-> "MissingArgument", pick |-> pick]
    ELSE [val |-> NoValue, err |-> "UnknownPolicy", pick |-> pick]

\* Pipeline.resolveArgDefault: [val, err, pick], pick the pick counters after
resolveArgDefault(policy, vals, pick, paramType) ==
    IF policy = MissingArgPolicyUseLatest
    THEN LET idx == PickCounter(pick, paramType)
             got == getValueByIndex(vals, paramType, idx)
         IN  IF got.err # Nil
             THEN [val |-> NoValue, err |-> got.err, pick |-> pick]
             ELSE [val |-> got.val, err |-> Nil,
                   pick |-> IF idx < Len(SliceAt(vals, paramType)) - 1
                            THEN MapSet(pick, paramType, idx + 1)
                            ELSE pick]
    ELSE IF policy = MissingArgPolicyFail
    THEN [val |-> NoValue, err |-> "MissingArgument", pick |-> pick]
    ELSE [val |-> NoValue, err |-> "UnknownPolicy", pick |-> pick]

\* Pipeline.resolveArgFromInitial: [val, err]
resolveArgFromInitial(allInitial, paramType, index) ==
    IF index < 0 \/ index >= Len(allInitial)
    THEN [val |-> NoValue, err |-> "IndexOutOfRange"]
    ELSE IF ~AssignableTo(allInitial[index + 1].t, paramType)
    THEN [val |-> NoValue, err |-> "TypeMismatch"]
    ELSE [val |-> allInitial[index + 1], err |-> Nil]

\* resolveArgFromFunctionOutput that takes an empty recorded sequence for a
\* missing one
resolveArgFromFunctionOutput_EmptyIsMissing(outs, paramType, funcName, outputIndex) ==
    IF Len(SliceAt(outs, funcName)) = 0
    THEN [val |-> NoValue, err |-> "UnknownProducer"]
    ELSE IF outputIndex < 0 \/ outputIndex >= Len(outs[funcName])
    THEN [val |-> NoValue, err |-> "IndexOutOfRange"]
    ELSE IF ~AssignableTo(outs[funcName][outputIndex + 1].t, paramType)
    THEN [val |-> NoValue, err |-> "TypeMismatch"]
    ELSE [val |-> outs[funcName][outputIndex + 1], err |-> Nil]

\* resolveArgFromFunctionOutput that takes a missing recorded sequence for an
\* empty one
resolveArgFromFunctionOutput_MissingIsEmpty(outs, paramType, funcName, outputIndex) ==
    IF outputIndex < 0 \/ outputIndex >= Len(SliceAt(outs, funcName))
    THEN [val |-> NoValue, err |-> "IndexOutOfRange"]
    ELSE IF ~AssignableTo(outs[funcName][outputIndex + 1].t, paramType)
    THEN [val |-> NoValue, err |-> "TypeMismatch"]
    ELSE [val |-> outs[funcName][outputIndex + 1], err |-> Nil]

\* Pipeline.resolveArgFromFunctionOutput: [val, err]
resolveArgFromFunctionOutput(outs, paramType, funcName, outputIndex) ==
    IF funcName \notin DOMAIN outs
    THEN [val |-> NoValue, err |-> "UnknownProducer"]
    ELSE IF outputIndex < 0 \/ outputIndex >= Len(outs[funcName])
    THEN [val |-> NoValue, err |-> "IndexOutOfRange"]
    ELSE IF ~AssignableTo(outs[funcName][outputIndex + 1].t, paramType)
    THEN [val |-> NoValue, err |-> "TypeMismatch"]
    ELSE [val |-> outs[funcName][outputIndex + 1], err |-> Nil]

\* resolveArg whose explicit bindings advance the pick counter of the
\* parameter's type
resolveArg_AdvancesCounter(cfg, vals, allInitial, outs, pick, paramType, binding) ==
    IF binding.Source = ArgSourceInitial
    THEN LET r == resolveArgFromInitial(allInitial, paramType, binding.Index)
         IN  [val |-> r.val, err |-> r.err,
              pick |-> MapSet(pick, paramType, PickCounter(pick, paramType) + 1)]
    ELSE IF binding.Source = ArgSourceFunctionOutput
    THEN LET r == resolveArgFromFunctionOutput(outs, paramType, binding.Name,
                                               binding.Index)
         IN  [val |-> r.val, err |-> r.err,
              pick |-> MapSet(pick, paramType, PickCounter(pick, paramType) + 1)]
    ELSE resolveArgDefault(cfg.MissingArgPolicy, vals, pick, paramType)

\* Pipeline.resolveArg: the switch on binding.Source; [val, err, pick]
resolveArg(cfg, vals, allInitial, outs, pick, paramType, binding) ==
    IF binding.Source = ArgSourceInitial
    THEN LET r == resolveArgFromInitial(allInitial, paramType, binding.Index)
         IN  [val |-> r.val, err |-> r.err, pick |-> pick]
    ELSE IF binding.Source = ArgSourceFunctionOutput
    THEN LET r == resolveArgFromFunctionOutput(outs, paramType, binding.Name,
                                               binding.Index)
         IN  [val |-> r.val, err |-> r.err, pick |-> pick]
    ELSE resolveArgDefault(cfg.MissingArgPolicy, vals, pick, paramType)

\* A *ArgBinding is a sequence: empty for the nil pointer, else the binding
NilBinding == <<>>

\* executeStep's choice for parameter i (0-based) of a step: a custom
\* binding when the step has a StepConfig with a non-nil binding at i
HasBinding(cfg, name, i) ==
    /\ name \in DOMAIN cfg.StepConfigs
    /\ i < Len(cfg.StepConfigs[name])
    /\ cfg.StepConfigs[name][i + 1] # NilBinding

\* one iteration of executeStep's parameter loop: [val, err, pick]
ResolveParam(cfg, vals, allInitial, outs, pick, step, i) ==
    IF HasBinding(cfg, step.Name, i)
    THEN resolveArg(cfg, vals, allInitial, outs, pick, In(step.Callable, i),
                    cfg.StepConfigs[step.Name][i + 1][1])
    ELSE resolveArgDefault(cfg.MissingArgPolicy, vals, pick, In(step.Callable, i))

\* fnValue.Call: one fresh value per result type; n values exist already
Call(callable, n) ==
    [k \in 1..Len(Signatures[callable].Out) |->
        [t |-> Signatures[callable].Out[k], v |-> n + k]]

\* ------------------------------------------------------------- Step Orderer
\* stepMap of reorderStepsIfNeeded: a later step of a name overwrites an
\* earlier one
StepMap(ss) ==
    [n \in { ss[k].Name : k \in 1..Len(ss) } |->
        ss[CHOOSE k \in 1..Len(ss) :
              /\ ss[k].Name = n
              /\ \A j \in 1..Len(ss) : ss[j].Name = n => j <= k]]

\* the walk over config.StepOrder: the steps appended to ordered
RECURSIVE OrderedPrefix(_, _)
OrderedPrefix(stepMap, order) ==
    IF order = <<>> THEN <<>>
    ELSE IF Head(order) \notin DOMAIN stepMap
    THEN OrderedPrefix(stepMap, Tail(order))
    ELSE <<stepMap[Head(order)]>> \o OrderedPrefix(stepMap, Tail(order))

\* the names the walk marks used
UsedNames(stepMap, order) == Range(order) \cap DOMAIN stepMap

NotUsed(used, s) == s.Name \notin used

\* reorderStepsIfNeeded without the check of used: every step is appended
\* after the configured prefix
reorderStepsIfNeeded_AppendAll(ss, order) ==
    IF Len(order) = 0 THEN ss
    ELSE OrderedPrefix(StepMap(ss), order) \o ss

\* Pipeline.reorderStepsIfNeeded: the new p.steps
reorderStepsIfNeeded(ss, order) ==
    IF Len(order) = 0 THEN ss
    ELSE LET stepMap == StepMap(ss)
             used == UsedNames(stepMap, order)
         IN  OrderedPrefix(stepMap, order)
                \o SelectSeq(ss, LAMBDA s : NotUsed(used, s))

\* ------------------------------------------------------------ Output Filter
\* filterOutputs with the test of the empty filter inverted
filterOutputs_Inverted(outs, filter) ==
    IF Len(filter) # 0 THEN outs
    ELSE [n \in { x \in DOMAIN outs : x \in Range(filter) } |-> outs[n]]

\* Pipeline.filterOutputs
filterOutputs(outs, filter) ==
    IF Len(filter) = 0 THEN outs
    ELSE [n \in { x \in DOMAIN outs : x \in Range(filter) } |-> outs[n]]

\* ------------------------------------------------------------ configuration
\* NewPipelineConfig: no order, UseLatest, no filter, no step configs
NewPipelineConfig ==
    [StepOrder |-> <<>>, MissingArgPolicy |-> MissingArgPolicyUseLatest,
     OutputFilter |-> <<>>, StepConfigs |-> EmptyMap]

\* &ArgBinding{Source, Name, Index}
ArgBinding(source, name, index) ==
    << [Source |-> source, Name |-> name, Index |-> index] >>

\* What Execute returns: the outputs are a sequence, empty for the nil map,
\* else holding the map; err is Nil or the kind of the error
Return(outputs, err) == [returned |-> TRUE, outputs |-> outputs, err |-> err]

NoReturn == [returned |-> FALSE, outputs |-> <<>>, err |-> Nil]

\* ------------------------------------------------------------------ actions
\* Pipeline.AddStep
AddStep(step) ==
    /\ pc = "idle"
    /\ Len(steps) < MaxSteps
    /\ steps' = Append(steps, step)
    /\ UNCHANGED <<values, initialValues, stepOutputs, pickCounters, config,
                   pc, pos, args, ret, calls, runs, inputCalls>>

\* the values of a call AddInitialInputs(inputs...), given the types of
\* its arguments; n values exist already
NewInputs(types, n) == [k \in 1..Len(types) |-> [t |-> types[k], v |-> n + k]]

\* Pipeline.AddInitialInputs
AddInitialInputs(types) ==
    /\ pc = "idle"
    /\ inputCalls < MaxInputCalls
    /\ LET ctx == AddInputs([values |-> values, initialValues |-> initialValues],
                            NewInputs(types, TotalValues(values)))
       IN  /\ values' = ctx.values
           /\ initialValues' = ctx.initialValues
    /\ inputCalls' = inputCalls + 1
    /\ UNCHANGED <<steps, stepOutputs, pickCounters, config,
                   pc, pos, args, ret, calls, runs>>

\* ExecuteStart that begins every run with an empty output log
ExecuteStart_FreshLog ==
    /\ pc = "idle"
    /\ runs < MaxRuns
    /\ steps' = reorderStepsIfNeeded(steps, config.StepOrder)
    /\ stepOutputs' = EmptyMap
    /\ pc' = "loop"
    /\ pos' = 0
    /\ args' = <<>>
    /\ calls' = <<>>
    /\ ret' = NoReturn
    /\ runs' = runs + 1
    /\ UNCHANGED <<values, initialValues, pickCounters, config, inputCalls>>

\* Execute, up to its loop: reorderStepsIfNeeded
ExecuteStart ==
    /\ pc = "idle"
    /\ runs < MaxRuns
    /\ steps' = reorderStepsIfNeeded(steps, config.StepOrder)
    /\ pc' = "loop"
    /\ pos' = 0
    /\ args' = <<>>
    /\ calls' = <<>>
    /\ ret' = NoReturn
    /\ runs' = runs + 1
    /\ UNCHANGED <<values, initialValues, stepOutputs, pickCounters, config,
                   inputCalls>>

\* StepBegin without the reset of the pick counters
StepBegin_NoReset ==
    /\ pc = "loop"
    /\ pos < Len(steps)
    /\ args' = <<>>
    /\ pc' = "args"
    /\ UNCHANGED <<steps, values, initialValues, stepOutputs, pickCounters,
                   config, pos, ret, calls, runs, inputCalls>>

\* Execute's loop takes the next step: the pick counters are reset and
\* executeStep starts with no argument resolved
StepBegin ==
    /\ pc = "loop"
    /\ pos < Len(steps)
    /\ pickCounters' = EmptyMap
    /\ args' = <<>>
    /\ pc' = "args"
    /\ UNCHANGED <<steps, values, initialValues, stepOutputs, config,
                   pos, ret, calls, runs, inputCalls>>

\* ResolveNext with Execute returning the filtered outputs beside the error
ResolveNext_PartialOutputs ==
    /\ pc = "args"
    /\ Len(args) < NumIn(steps[pos + 1].Callable)
    /\ LET r == ResolveParam(config, values, initialValues, stepOutputs,
                             pickCounters, steps[pos + 1], Len(args))
       IN  /\ pickCounters' = r.pick
           /\ IF r.err # Nil
              THEN /\ ret' = Return(<<filterOutputs(stepOutputs, config.OutputFilter)>>,
                                    r.err)
                   /\ pc' = "idle"
                   /\ args' = <<>>
              ELSE /\ args' = Append(args, r.val)
                   /\ UNCHANGED <<ret, pc>>
    /\ UNCHANGED <<steps, values, initialValues, stepOutputs, config,
                   pos, calls, runs, inputCalls>>

\* ResolveNext with Execute's loop going on to the next step after a failed
\* one, the error kept
ResolveNext_Continue ==
    /\ pc = "args"
    /\ Len(args) < NumIn(steps[pos + 1].Callable)
    /\ LET r == ResolveParam(config, values, initialValues, stepOutputs,
                             pickCounters, steps[pos + 1], Len(args))
       IN  /\ pickCounters' = r.pick
           /\ IF r.err # Nil
              THEN /\ ret' = Return(<<>>, r.err)
                   /\ pc' = "loop"
                   /\ pos' = pos + 1
                   /\ args' = <<>>
              ELSE /\ args' = Append(args, r.val)
                   /\ UNCHANGED <<ret, pc, pos>>
    /\ UNCHANGED <<steps, values, initialValues, stepOutputs, config,
                   calls, runs, inputCalls>>

\* ResolveNext that on an error records the arguments resolved so far as
\* outputs of the step
ResolveNext_RecordsResolved ==
    /\ pc = "args"
    /\ Len(args) < NumIn(steps[pos + 1].Callable)
    /\ LET r == ResolveParam(config, values, initialValues, stepOutputs,
                             pickCounters, steps[pos + 1], Len(args))
       IN  /\ pickCounters' = r.pick
           /\ IF r.err # Nil
              THEN /\ ret' = Return(<<>>, r.err)
                   /\ pc' = "idle"
                   /\ args' = <<>>
                   /\ stepOutputs' = MapSet(stepOutputs, steps[pos + 1].Name,
                                            SliceAt(stepOutputs, steps[pos + 1].Name)
                                               \o args)
              ELSE /\ args' = Append(args, r.val)
                   /\ UNCHANGED <<ret, pc, stepOutputs>>
    /\ UNCHANGED <<steps, values, initialValues, config,
                   pos, calls, runs, inputCalls>>

\* executeStep resolves its next parameter; an error ends executeStep and
\* Execute, which returns (nil, err)
ResolveNext ==
    /\ pc = "args"
    /\ Len(args) < NumIn(steps[pos + 1].Callable)
    /\ LET r == ResolveParam(config, values, initialValues, stepOutputs,
                             pickCounters, steps[pos + 1], Len(args))
       IN  /\ pickCounters' = r.pick
           /\ IF r.err # Nil
              THEN /\ ret' = Return(<<>>, r.err)
                   /\ pc' = "idle"
                   /\ args' = <<>>
              ELSE /\ args' = Append(args, r.val)
                   /\ UNCHANGED <<ret, pc>>
    /\ UNCHANGED <<steps, values, initialValues, stepOutputs, config,
                   pos, calls, runs, inputCalls>>

\* Invoke that stores the results without recording them in the step's
\* outputs
Invoke_NotRecorded ==
    /\ pc = "args"
    /\ Len(args) = NumIn(steps[pos + 1].Callable)
    /\ LET step == steps[pos + 1]
           results == Call(step.Callable, TotalValues(values))
       IN  /\ values' = StoreResults(values, results)
           /\ calls' = Append(calls, [pos |-> pos, step |-> step, args |-> args,
                                      results |-> results])
    /\ pos' = pos + 1
    /\ pc' = "loop"
    /\ args' = <<>>
    /\ UNCHANGED <<steps, initialValues, stepOutputs, pickCounters, config, ret,
                   runs, inputCalls>>

\* executeStep with every parameter resolved: the call, StoreResults, the
\* results appended to the step's outputs; Execute's loop moves on
Invoke ==
    /\ pc = "args"
    /\ Len(args) = NumIn(steps[pos + 1].Callable)
    /\ LET step == steps[pos + 1]
           results == Call(step.Callable, TotalValues(values))
       IN  /\ values' = StoreResults(values, results)
           /\ stepOutputs' = MapSet(stepOutputs, step.Name,
                                    SliceAt(stepOutputs, step.Name) \o results)
           /\ calls' = Append(calls, [pos |-> pos, step |-> step, args |-> args,
                                      results |-> results])
    /\ pos' = pos + 1
    /\ pc' = "loop"
    /\ args' = <<>>
    /\ UNCHANGED <<steps, initialValues, pickCounters, config, ret, runs, inputCalls>>

\* Execute after its loop: filterOutputs and the return
ExecuteReturn ==
    /\ pc = "loop"
    /\ pos = Len(steps)
    /\ ret' = Return(<<filterOutputs(stepOutputs, config.OutputFilter)>>, Nil)
    /\ pc' = "idle"
    /\ UNCHANGED <<steps, values, initialValues, stepOutputs, pickCounters,
                   config, pos, args, calls, runs, inputCalls>>

Next ==
    \/ \E step \in StepChoices : AddStep(step)
    \/ \E types \in InputChoices : AddInitialInputs(types)
    \/ ExecuteStart
    \/ StepBegin
    \/ ResolveNext
    \/ Invoke
    \/ ExecuteReturn

\* NewPipeline with the configuration cfg
InitWith(cfg) ==
    /\ steps = <<>>
    /\ values = EmptyMap
    /\ initialValues = <<>>
    /\ stepOutputs = EmptyMap
    /\ pickCounters = EmptyMap
    /\ config = cfg
    /\ pc = "idle"
    /\ pos = 0
    /\ args = <<>>
    /\ ret = NoReturn
    /\ calls = <<>>
    /\ runs = 0
    /\ inputCalls = 0

\* the default configuration
Init == InitWith(NewPipelineConfig)

Spec == Init /\ [][Next]_vars

\* configured orders: empty, partial, complete, with an unknown name, with a
\* name listed twice
OrderChoices ==
    { <<>>, <<"C">>, <<"X">>, <<"B", "A">>, <<"X", "B">>, <<"A", "A">>,
      <<"C", "A", "B">>, <<"B", "A", "B">> }

InitOrder ==
    \E o \in OrderChoices : InitWith([NewPipelineConfig EXCEPT !.StepOrder = o])

SpecOrder == InitOrder /\ [][Next]_vars

Initial(i) == ArgBinding(ArgSourceInitial, "", i)
FunctionOutput(n, i) == ArgBinding(ArgSourceFunctionOutput, n, i)
Default == ArgBinding(ArgSourceDefault, "", 0)

\* step configs under UseLatest: explicit bindings in and out of range, of
\* the right and of the wrong type, to a step's own output, to a step that
\* returns nothing, mixed with default resolution
BindChoices ==
    { [B |-> <<Initial(0), NilBinding>>],
      [B |-> <<NilBinding, Initial(1)>>],
      [B |-> <<FunctionOutput("A", 0), Default>>],
      [B |-> <<Initial(-1)>>, A |-> <<FunctionOutput("A", 1)>>],
      [B |-> <<FunctionOutput("B", 0)>>],
      [A |-> <<FunctionOutput("B", 0)>>],
      [A |-> <<FunctionOutput("A", 2)>>, B |-> <<Initial(2)>>] }

InitBind ==
    \E sc \in BindChoices : InitWith([NewPipelineConfig EXCEPT !.StepConfigs = sc])

SpecBind == InitBind /\ [][Next]_vars

\* step configs under policy Fail: no binding, a short binding list, a nil
\* binding, a Default binding, every parameter bound, a binding to the
\* output of a step that returns nothing
FailChoices ==
    { EmptyMap,
      [B |-> <<Initial(0)>>],
      [B |-> <<NilBinding, Initial(0)>>],
      [B |-> <<Initial(0), Default>>, A |-> <<Initial(2)>>],
      [B |-> <<Initial(0), Initial(1), Initial(0)>>,
       A |-> <<FunctionOutput("B", 0)>>] }

InitFail ==
    \E sc \in FailChoices :
        InitWith([NewPipelineConfig EXCEPT !.MissingArgPolicy = MissingArgPolicyFail,
                                           !.StepConfigs = sc])

SpecFail == InitFail /\ [][Next]_vars

\* output filters: none, a step that returns values, a step that returns
\* none with an unknown name, a name listed twice
FilterChoices ==
    { <<>>, <<"A">>, <<"B", "X">>, <<"A", "B", "A">> }

\* the filters under UseLatest, and one under Fail, where a run fails after
\* steps that succeeded
FilterConfigs ==
    { [NewPipelineConfig EXCEPT !.OutputFilter = f] : f \in FilterChoices }
        \cup { [NewPipelineConfig EXCEPT !.OutputFilter = <<"A">>,
                                         !.MissingArgPolicy = MissingArgPolicyFail] }

InitFilter == \E cfg \in FilterConfigs : InitWith(cfg)

SpecFilter == InitFilter /\ [][Next]_vars

\* --------------------------------------------------------------- properties
\* the names of a step sequence are pairwise distinct
DistinctNames(ss) ==
    \A i, j \in 1..Len(ss) : ss[i].Name = ss[j].Name => i = j

NamesOf(ss) == { ss[k].Name : k \in 1..Len(ss) }

\* the step of ss registered under name n (one exists and names are distinct)
StepNamed(ss, n) == ss[CHOOSE k \in 1..Len(ss) : ss[k].Name = n]

\* The sequence the reordering contract asks for: the known names of O in
\* O's order, then the steps of S that O does not name, as registered
ExpectedSequence(S, O) ==
    LET known == SelectSeq(O, LAMBDA n : n \in NamesOf(S))
        rest == SelectSeq(S, LAMBDA s : s.Name \notin Range(O))
    IN  [k \in 1..Len(known) |-> StepNamed(S, known[k])] \o rest

\* Execute starts a run: the transition that reorders p.steps
StartsRun == pc = "idle" /\ pc' = "loop"

\* C1: when Execute starts on steps S with distinct names and configured
\* order O, the execution sequence becomes the known names of O in O's
\* order followed by the steps of S that O does not name, in registration
\* order (S itself when O is empty); the steps Execute then invokes are the
\* steps of that sequence, in its order.
C1_Reordering ==
    /\ [][StartsRun /\ DistinctNames(steps)
            => steps' = ExpectedSequence(steps, config.StepOrder)]_vars
    /\ [](\A k \in 1..Len(calls) :
            k <= Len(steps) /\ calls[k].pos = k - 1 /\ calls[k].step = steps[k])

\* C1 witness: a first run on three steps with distinct names, reordered by
\* an order that names an unknown step, has invoked its first two steps
C1_Witness ==
    /\ runs = 1
    /\ config.StepOrder = <<"X", "B">>
    /\ Len(steps) = 3
    /\ DistinctNames(steps)
    /\ steps[1].Name = "B" /\ steps[2].Name = "C" /\ steps[3].Name = "A"
    /\ Len(calls) = 2

\* C10: when Execute starts on steps with distinct names, every registered
\* step occurs exactly once in the execution sequence, which has the length
\* of the registry, for every configured order.
C10_ExactlyOnce ==
    [][StartsRun /\ DistinctNames(steps)
         => /\ Len(steps') = Len(steps)
            /\ \A i \in 1..Len(steps) :
                 Cardinality({ k \in 1..Len(steps') : steps'[k] = steps[i] }) = 1]_vars

\* the last Execute returned an error
Failed == ret.returned /\ ret.err # Nil

\* the last Execute returned without error
Succeeded == ret.returned /\ ret.err = Nil

\* the output log that the invocations cs build from an empty one
RECURSIVE LogOfCalls(_)
LogOfCalls(cs) ==
    IF cs = <<>> THEN EmptyMap
    ELSE LET prior == LogOfCalls(SubSeq(cs, 1, Len(cs) - 1))
             last == cs[Len(cs)]
         IN  MapSet(prior, last.step.Name,
                    SliceAt(prior, last.step.Name) \o last.results)

\* every value of the value store
StoredValues(vals) == UNION { Range(vals[t]) : t \in DOMAIN vals }

\* every value the invocations cs returned
ResultsOfCalls(cs) == UNION { Range(cs[k].results) : k \in 1..Len(cs) }

\* the invocations of the run are those of the steps before position pos
InvokedUpTo ==
    /\ Len(calls) = pos
    /\ \A k \in 1..Len(calls) : calls[k].pos = k - 1 /\ calls[k].step = steps[k]

\* C2 (amended): when a run fails at position i, exactly the steps 0..i-1
\* were invoked and none is invoked afterwards; in a first run the output
\* log is exactly what those invocations recorded (a later step's name is a
\* key only when an earlier step has that name) and the value store holds
\* exactly the initial inputs and the results of those invocations.
C2_FailFast ==
    Failed =>
        /\ pos < Len(steps)
        /\ InvokedUpTo
        /\ runs = 1 =>
            /\ stepOutputs = LogOfCalls(calls)
            /\ DOMAIN stepOutputs = { steps[k].Name : k \in 1..pos }
            /\ StoredValues(values) = Range(initialValues) \cup ResultsOfCalls(calls)
            /\ TotalValues(values) = Cardinality(StoredValues(values))

\* C2 witness: a first run failed at its second step with a third step
\* waiting, the first step's results recorded
C2_Witness ==
    /\ Failed
    /\ runs = 1
    /\ pos = 1
    /\ Len(steps) = 3
    /\ Len(calls) = 1
    /\ calls[1].results # <<>>
    /\ stepOutputs = LogOfCalls(calls)

\* C2 as stated: when a step of a first run fails, the name of no later step
\* of the execution sequence is a key of the output log.
C2_Original ==
    [][(pc = "args" /\ pc' = "idle" /\ runs = 1)
         => \A k \in (pos + 2)..Len(steps) : steps[k].Name \notin DOMAIN stepOutputs']_vars

\* parameter i (0-based) of step goes to resolveArgDefault: it has no
\* binding (none for the step, a short list, a nil entry) or a binding
\* whose source is neither Initial nor FunctionOutput
DefaultResolved(cfg, step, i) ==
    \/ ~HasBinding(cfg, step.Name, i)
    \/ cfg.StepConfigs[step.Name][i + 1][1].Source
          \notin {ArgSourceInitial, ArgSourceFunctionOutput}

\* how many parameters before i of step are default-resolved with the type
\* of parameter i
SameTypedBefore(cfg, step, i) ==
    Cardinality({ h \in 0..(i - 1) :
                    /\ DefaultResolved(cfg, step, h)
                    /\ In(step.Callable, h) = In(step.Callable, i) })

Min(a, b) == IF a <= b THEN a ELSE b

\* C3: under UseLatest, while a step resolves its parameters with k values
\* of type T stored, its j-th default-resolved parameter of type T has
\* received the value at index min(j, k - 1) of T's sequence (and k >= 1).
C3_UseLatestClamping ==
    (pc = "args" /\ config.MissingArgPolicy = MissingArgPolicyUseLatest) =>
        \A i \in 0..(Len(args) - 1) :
            DefaultResolved(config, steps[pos + 1], i) =>
                LET T == In(steps[pos + 1].Callable, i)
                    k == Len(SliceAt(values, T))
                    j == SameTypedBefore(config, steps[pos + 1], i)
                IN  /\ k >= 1
                    /\ args[i + 1] = values[T][Min(j, k - 1) + 1]

\* C3 witness: a step with three default-resolved string parameters and two
\* strings stored has received the first, the second, and the second again
C3_Witness ==
    /\ pc = "args"
    /\ config.MissingArgPolicy = MissingArgPolicyUseLatest
    /\ Len(args) = 3
    /\ \A i \in 0..2 : DefaultResolved(config, steps[pos + 1], i)
    /\ Len(SliceAt(values, "string")) = 2
    /\ args = <<values["string"][1], values["string"][2], values["string"][2]>>

\* C4: when a step starts resolving its parameters every pick counter is 0,
\* whatever the steps before it consumed; so under UseLatest the first
\* default-resolved parameter of a type of every step has received the
\* value at index 0 of that type's sequence.
C4_PickCountersReset ==
    pc = "args" =>
        /\ Len(args) = 0 => \A t \in Types : PickCounter(pickCounters, t) = 0
        /\ config.MissingArgPolicy = MissingArgPolicyUseLatest =>
             \A i \in 0..(Len(args) - 1) :
                (/\ DefaultResolved(config, steps[pos + 1], i)
                 /\ SameTypedBefore(config, steps[pos + 1], i) = 0)
                    => args[i + 1] = values[In(steps[pos + 1].Callable, i)][1]

\* C4 witness: the step before consumed two different strings, and the
\* current step's first string parameter received the oldest string
C4_Witness ==
    /\ pc = "args"
    /\ pos >= 1
    /\ Len(calls) = pos
    /\ Len(calls[pos].args) = 3
    /\ calls[pos].args[1] # calls[pos].args[2]
    /\ Len(args) = 1
    /\ args[1] = values["string"][1]

PolicyFail == config.MissingArgPolicy = MissingArgPolicyFail

\* step has a default-resolved parameter
HasDefaultParam(cfg, step) ==
    \E i \in 0..(NumIn(step.Callable) - 1) : DefaultResolved(cfg, step, i)

\* executeStep is about to resolve a default-resolved parameter
AtDefaultParam ==
    /\ pc = "args"
    /\ Len(args) < NumIn(steps[pos + 1].Callable)
    /\ DefaultResolved(config, steps[pos + 1], Len(args))

BindingIndices == -1..3
BindingNames == Names \cup {UnknownName}
Policies == {MissingArgPolicyUseLatest, MissingArgPolicyFail}

\* resolveArg in the current state under the given policy
ResolveUnder(policy, paramType, binding) ==
    resolveArg([config EXCEPT !.MissingArgPolicy = policy], values,
               initialValues, stepOutputs, pickCounters, paramType, binding[1])

OutOfRange(i, seq) == i < 0 \/ i >= Len(seq)

\* the binding of the parameter executeStep is about to resolve, when it
\* has one
AtBinding ==
    /\ pc = "args"
    /\ Len(args) < NumIn(steps[pos + 1].Callable)
    /\ HasBinding(config, steps[pos + 1].Name, Len(args))

CurrentBinding == config.StepConfigs[steps[pos + 1].Name][Len(args) + 1][1]

\* C6 (amended): under either policy and in every state, an Initial binding
\* with an index outside [0, number of initial inputs) fails with
\* IndexOutOfRange; a FunctionOutput binding fails with IndexOutOfRange when
\* the named step has an entry in the output log and the index is outside
\* [0, length of the entry), and with UnknownProducer, whatever the index,
\* when the named step has no entry; a run that resolves such a binding
\* returns that error.
C6_BindingBounds ==
    /\ [](\A policy \in Policies, t \in Types, i \in BindingIndices :
            /\ OutOfRange(i, initialValues)
                 => ResolveUnder(policy, t, Initial(i)).err = "IndexOutOfRange"
            /\ \A n \in BindingNames :
                 /\ (n \in DOMAIN stepOutputs /\ OutOfRange(i, stepOutputs[n]))
                      => ResolveUnder(policy, t, FunctionOutput(n, i)).err
                            = "IndexOutOfRange"
                 /\ n \notin DOMAIN stepOutputs
                      => ResolveUnder(policy, t, FunctionOutput(n, i)).err
                            = "UnknownProducer")
    /\ [][(/\ AtBinding
           /\ \/ /\ CurrentBinding.Source = ArgSourceInitial
                 /\ OutOfRange(CurrentBinding.Index, initialValues)
              \/ /\ CurrentBinding.Source = ArgSourceFunctionOutput
                 /\ CurrentBinding.Name \in DOMAIN stepOutputs
                 /\ OutOfRange(CurrentBinding.Index, stepOutputs[CurrentBinding.Name]))
            => (pc' = "idle" /\ ret' = Return(<<>>, "IndexOutOfRange"))]_vars

\* C6 witness: a run failed with IndexOutOfRange on a FunctionOutput binding
\* to index 0 of B, which ran before and recorded an empty entry
C6_Witness ==
    /\ Failed
    /\ ret.err = "IndexOutOfRange"
    /\ runs = 1
    /\ "B" \in DOMAIN stepOutputs
    /\ stepOutputs["B"] = <<>>
    /\ HasBinding(config, steps[pos + 1].Name, 0)
    /\ config.StepConfigs[steps[pos + 1].Name][1] = FunctionOutput("B", 0)

\* C6 as stated: resolving a FunctionOutput binding whose index is outside
\* [0, number of recorded outputs of the named step), or an Initial binding
\* whose index is outside [0, number of initial inputs), fails with
\* IndexOutOfRange.
C6_Original ==
    [][(/\ AtBinding
        /\ \/ /\ CurrentBinding.Source = ArgSourceInitial
              /\ OutOfRange(CurrentBinding.Index, initialValues)
           \/ /\ CurrentBinding.Source = ArgSourceFunctionOutput
              /\ OutOfRange(CurrentBinding.Index,
                            SliceAt(stepOutputs, CurrentBinding.Name)))
         => (pc' = "idle" /\ ret' = Return(<<>>, "IndexOutOfRange"))]_vars

\* Execute returns: the transition that ends a run
Returns == pc # "idle" /\ pc' = "idle"

\* C7: Execute returns either the filtered output log and no error, after
\* it invoked every step of the execution sequence, or a nil result and the
\* error of the step it stopped at, all steps before it invoked; a failed
\* run returns none of the outputs the steps before the failure recorded.
C7_ExecuteResult ==
    /\ [][Returns =>
            /\ ret'.returned
            /\ \/ /\ ret'.err = Nil
                  /\ ret'.outputs = <<filterOutputs(stepOutputs', config.OutputFilter)>>
                  /\ pos = Len(steps)
                  /\ InvokedUpTo
               \/ /\ ret'.err # Nil
                  /\ ret'.outputs = <<>>
                  /\ pos < Len(steps)
                  /\ InvokedUpTo
                  /\ ret'.err = ResolveParam(config, values, initialValues,
                                             stepOutputs, pickCounters,
                                             steps[pos + 1], Len(args)).err]_vars
    /\ [](Failed => ret.outputs = <<>>)
    /\ [](Succeeded =>
            ret.outputs = <<filterOutputs(stepOutputs, config.OutputFilter)>>)

\* C7 witness: a run failed after its first step recorded outputs that the
\* filter selects, and returned a nil result
C7_Witness ==
    /\ Failed
    /\ ret.outputs = <<>>
    /\ pos = 1
    /\ Len(calls) = 1
    /\ config.OutputFilter = <<"A">>
    /\ "A" \in DOMAIN stepOutputs
    /\ Len(stepOutputs["A"]) = 2

\* C8: after a successful Execute with a non-empty filter, the result has
\* an entry for a name exactly when the name is in the filter and that
\* step produced at least one output.
C8_FilterEntries ==
    (Succeeded /\ Len(config.OutputFilter) > 0) =>
        \A n \in Names \cup {UnknownName} :
            n \in DOMAIN ret.outputs[1]
                <=> (n \in Range(config.OutputFilter)
                     /\ Len(SliceAt(stepOutputs, n)) > 0)

\* the filters the idempotence claim ranges over
FilterLists == FilterChoices \cup { <<"X">>, <<"C", "A">> }

\* C9: for the output log L of every state and every non-empty filter F,
\* filtering L by F twice gives what filtering once gives, and filtering L
\* by the empty filter gives L; what a successful Execute returned is
\* unchanged by filtering it again.
C9_FilterIdempotent ==
    /\ \A F \in FilterLists :
          Len(F) > 0 =>
             filterOutputs(filterOutputs(stepOutputs, F), F)
                = filterOutputs(stepOutputs, F)
    /\ filterOutputs(stepOutputs, <<>>) = stepOutputs
    /\ Succeeded =>
          filterOutputs(ret.outputs[1], config.OutputFilter) = ret.outputs[1]

\* C9 witness: a successful run with a non-empty filter returned a proper,
\* non-empty part of an output log
C9_Witness ==
    /\ Succeeded
    /\ Len(config.OutputFilter) > 0
    /\ DOMAIN ret.outputs[1] # {}
    /\ DOMAIN ret.outputs[1] # DOMAIN stepOutputs
    /\ Cardinality(DOMAIN stepOutputs) = 3

\* C11: when Execute starts, whatever the registry (names registered twice
\* included) and the configured order, every registered step occurs in the
\* execution sequence.
C11_NoStepDropped ==
    [][StartsRun
         => \A i \in 1..Len(steps) :
               \E k \in 1..Len(steps') : steps'[k] = steps[i]]_vars

\* executeStep is about to resolve a parameter bound to a step's output
AtFunctionOutput ==
    /\ AtBinding
    /\ CurrentBinding.Source = ArgSourceFunctionOutput

\* the recorded outputs of the step the current binding names
ProducerOutputs == SliceAt(stepOutputs, CurrentBinding.Name)

\* C12: resolving a FunctionOutput binding that names a step with no
\* recorded outputs (not registered, not yet executed, executed with zero
\* return values) aborts the run with UnknownProducer; a FunctionOutput
\* binding fails with IndexOutOfRange only when the named step has at least
\* one recorded output and the index is outside its bounds.
C12_UnknownProducer ==
    [][AtFunctionOutput
         => /\ Len(ProducerOutputs) = 0
                 => (pc' = "idle" /\ ret' = Return(<<>>, "UnknownProducer"))
            /\ (pc' = "idle" /\ ret'.err = "IndexOutOfRange")
                 => /\ Len(ProducerOutputs) >= 1
                    /\ OutOfRange(CurrentBinding.Index, ProducerOutputs)]_vars

\* a step named n is at a position before the current one
ExecutedBefore(n) == \E k \in 1..pos : steps[k].Name = n

\* a step named n is at the current position or a later one
AtOrAfter(n) == \E k \in (pos + 1)..Len(steps) : steps[k].Name = n

\* the resolution of the current parameter succeeded with value v
ResolvedTo(v) == pc' = "args" /\ args' = Append(args, v)

\* C13 (amended): in a first run, a FunctionOutput binding (n, i) of the
\* step at position p resolves only if a step named n was invoked at a
\* position before p, and then to the i-th value those invocations
\* recorded; if no step named n is at a position before p (n is not
\* registered, or is only at p or later, the step itself included) the
\* resolution fails with UnknownProducer and the run aborts.
C13_Visibility ==
    [][(AtFunctionOutput /\ runs = 1)
         => LET n == CurrentBinding.Name
                i == CurrentBinding.Index
            IN  /\ pc' = "args"
                     => /\ ExecutedBefore(n)
                        /\ i >= 0 /\ i < Len(LogOfCalls(calls)[n])
                        /\ ResolvedTo(LogOfCalls(calls)[n][i + 1])
                /\ ~ExecutedBefore(n)
                     => (pc' = "idle" /\ ret' = Return(<<>>, "UnknownProducer"))]_vars

\* C13 witness: in a first run, after A was invoked, B bound to its own
\* output failed with UnknownProducer
C13_Witness ==
    /\ Failed
    /\ runs = 1
    /\ ret.err = "UnknownProducer"
    /\ pos = 1
    /\ Len(calls) = 1
    /\ calls[1].step.Name = "A"
    /\ steps[2].Name = "B"
    /\ HasBinding(config, "B", 0)
    /\ config.StepConfigs["B"][1] = FunctionOutput("B", 0)

\* C13 as stated: in a first run, a FunctionOutput binding naming n, of the
\* step at position p, fails with UnknownProducer when a step named n is at
\* position p or later.
C13_Original ==
    [][(AtFunctionOutput /\ runs = 1 /\ AtOrAfter(CurrentBinding.Name))
         => (pc' = "idle" /\ ret' = Return(<<>>, "UnknownProducer"))]_vars

\* s is an initial part of t
IsPrefix(s, t) == Len(s) <= Len(t) /\ \A k \in 1..Len(s) : s[k] = t[k]

\* the values of type t among vs, in order
OfType(vs, t) == SelectSeq(vs, LAMBDA x : x.t = t)

\* AddInitialInputs is called
AddsInputs == inputCalls' = inputCalls + 1

\* a step is invoked and its results stored
Invokes == pc = "args" /\ pc' = "loop"

\* what follows the first Len(s) elements of t
Added(s, t) == SubSeq(t, Len(s) + 1, Len(t))

\* C14: every step of the program leaves each type's sequence and the
\* initial-input sequence an initial part of what it becomes (a value at
\* index x stays at index x); AddInitialInputs appends its values, in
\* order, to the initial-input sequence and each to the end of its type's
\* sequence; an invocation appends its results each to the end of its
\* type's sequence and leaves the initial-input sequence unchanged; nothing
\* else changes either.
C14_AppendOnly ==
    /\ [][/\ IsPrefix(initialValues, initialValues')
          /\ DOMAIN values \subseteq DOMAIN values'
          /\ \A t \in Types : IsPrefix(SliceAt(values, t), SliceAt(values', t))]_vars
    /\ [][AddsInputs
            => LET new == Added(initialValues, initialValues')
               IN  /\ Len(new) > 0
                   /\ \A t \in Types :
                        SliceAt(values', t) = SliceAt(values, t) \o OfType(new, t)]_vars
    /\ [][Invokes
            => /\ initialValues' = initialValues
               /\ \A t \in Types :
                    SliceAt(values', t)
                       = SliceAt(values, t) \o OfType(calls'[Len(calls')].results, t)]_vars
    /\ [][~(AddsInputs \/ Invokes) => UNCHANGED <<values, initialValues>>]_vars

\* C14 witness: two strings were added as initial inputs and a step then
\* stored a string and an int: the strings are the inputs followed by the
\* result, the initial inputs are the two strings
C14_Witness ==
    /\ Len(initialValues) = 2
    /\ Len(calls) >= 1
    /\ Len(calls[1].results) = 2
    /\ DOMAIN values = {"string", "int"}
    /\ values["string"] = initialValues \o <<calls[1].results[1]>>
    /\ values["int"] = <<calls[1].results[2]>>

\* executeStep's parameter loop ends with an error
ResolutionFails == pc = "args" /\ pc' = "idle"

\* C15: a step's parameters are resolved left to right, each resolved value
\* appended to the arguments; from the start of a step through every
\* resolution, the failing one included, no callable is invoked and the
\* value store, the initial inputs and the output log do not change, so a
\* failed step leaves them as they were when it started, whatever was
\* resolved before the failure; a callable is invoked only with all its
\* parameters resolved.
C15_NoPartialInvocation ==
    /\ [][(pc' = "args" \/ ResolutionFails)
            => UNCHANGED <<values, initialValues, stepOutputs, calls>>]_vars
    /\ [][(pc = "args" /\ pc' = "args")
            => args' = Append(args,
                              ResolveParam(config, values, initialValues,
                                           stepOutputs, pickCounters,
                                           steps[pos + 1], Len(args)).val)]_vars
    /\ [][calls' # calls /\ calls' # <<>>
            => /\ Len(args) = NumIn(steps[pos + 1].Callable)
               /\ calls' = Append(calls, [pos |-> pos, step |-> steps[pos + 1],
                                          args |-> args,
                                          results |-> Call(steps[pos + 1].Callable,
                                                           TotalValues(values))])]_vars
    /\ [](Failed => /\ Len(calls) = pos
                    /\ runs = 1 => stepOutputs = LogOfCalls(calls))

\* C15 witness: step B, at the second position, resolved its first
\* parameter by default and failed on its second, bound to an initial input
\* that does not exist; only the first step was invoked and the log holds
\* only its results
C15_Witness ==
    /\ Failed
    /\ ret.err = "IndexOutOfRange"
    /\ runs = 1
    /\ pos = 1
    /\ steps[2] = Step("B", "sink")
    /\ "B" \in DOMAIN config.StepConfigs
    /\ config.StepConfigs["B"] = <<NilBinding, Initial(1)>>
    /\ Len(calls) = 1
    /\ calls[1].results # <<>>
    /\ stepOutputs = LogOfCalls(calls)
    /\ TotalValues(values) = Len(initialValues) + Len(calls[1].results)

\* the results of the invocations cs of steps named n, in invocation order
RECURSIVE ResultsNamed(_, _)
ResultsNamed(cs, n) ==
    IF cs = <<>> THEN <<>>
    ELSE (IF Head(cs).step.Name = n THEN Head(cs).results ELSE <<>>)
            \o ResultsNamed(Tail(cs), n)

\* what the invocations of the current run recorded under the name n
ThisRun(n) == ResultsNamed(calls, n)

\* what the output log holds under the name n before that
EarlierRuns(n) ==
    SubSeq(SliceAt(stepOutputs, n), 1, Len(SliceAt(stepOutputs, n)) - Len(ThisRun(n)))

\* the log of every name is what earlier runs recorded followed by what the
\* current run recorded, and a first run starts from an empty log
LogIsEarlierThenThisRun ==
    \A n \in Names :
       /\ Len(ThisRun(n)) <= Len(SliceAt(stepOutputs, n))
       /\ SliceAt(stepOutputs, n) = EarlierRuns(n) \o ThisRun(n)
       /\ runs <= 1 => EarlierRuns(n) = <<>>

\* during a run, and after it while no step is added, reordering the
\* execution sequence again gives the same sequence
OrderIsFixedPoint ==
    (runs >= 1 /\ (pc # "idle" \/ (ret.returned /\ Len(calls) = Len(steps))))
        => reorderStepsIfNeeded(steps, config.StepOrder) = steps

\* C16: Execute starts without touching the value store or the output log;
\* in every run the log of a name is what it held when the run started
\* followed by what the run's invocations of that name recorded, in order
\* (in a first run it held nothing, so after two runs it is the first run's
\* outputs followed by the second's); every resolution of a later run is
\* made against the accumulated store and log; the execution sequence is a
\* fixed point of the reordering during and after a run, so a second run
\* executes the steps in the order of the first.
C16_Accumulates ==
    /\ [][StartsRun
            => /\ UNCHANGED <<values, initialValues, stepOutputs>>
               /\ \A n \in Names : EarlierRuns(n)' = SliceAt(stepOutputs, n)]_vars
    /\ [][runs' = runs => \A n \in Names : EarlierRuns(n)' = EarlierRuns(n)]_vars
    /\ []LogIsEarlierThenThisRun
    /\ [][(runs = 2 /\ pc = "args" /\ pc' = "args")
            => args' = Append(args,
                              ResolveParam(config, values, initialValues,
                                           stepOutputs, pickCounters,
                                           steps[pos + 1], Len(args)).val)]_vars
    /\ []OrderIsFixedPoint
    /\ [][(StartsRun /\ Succeeded /\ Len(calls) = Len(steps))
            => /\ steps' = steps
               /\ \A k \in 1..Len(steps) : steps'[k] = calls[k].step]_vars

\* C16 witness: two successful runs of B then A (registered as A, B and
\* reordered); A's log is its first-run outputs followed by its second-run
\* outputs, and B's third argument in the second run was A's first-run
\* string
C16_Witness ==
    /\ runs = 2
    /\ Succeeded
    /\ config.StepOrder = <<"B", "A">>
    /\ steps = <<Step("B", "sink"), Step("A", "src")>>
    /\ Len(calls) = 2
    /\ Len(stepOutputs["A"]) = 4
    /\ EarlierRuns("A") = SubSeq(stepOutputs["A"], 1, 2)
    /\ ThisRun("A") = calls[2].results
    /\ calls[1].args[3] = stepOutputs["A"][1]

\* the indices the claim about getValueByIndex ranges over
ValueIndices == -2..5

\* C17: for the value store of every state, every type and every index,
\* getValueByIndex fails with NotFound when the type has no values (negative
\* indices included), else with InvalidIndex when the index is negative,
\* else returns the value at position min(index, length - 1) of the type's
\* sequence; the resolution that calls it leaves the store unchanged.
C17_ValueAt ==
    /\ [](\A t \in Types, i \in ValueIndices :
            LET r == getValueByIndex(values, t, i)
                seq == SliceAt(values, t)
            IN  /\ Len(seq) = 0 => (r.err = "NotFound" /\ r.val = NoValue)
                /\ (Len(seq) > 0 /\ i < 0)
                     => (r.err = "InvalidIndex" /\ r.val = NoValue)
                /\ (Len(seq) > 0 /\ i >= 0)
                     => (r.err = Nil /\ r.val = seq[Min(i, Len(seq) - 1) + 1]))
    /\ [][AtDefaultParam => values' = values]_vars

\* C17 witness: with two strings and no int stored, a step received the
\* second string for an index past the end; an int at a negative index is
\* NotFound, a string at a negative index InvalidIndex
C17_Witness ==
    /\ pc = "args"
    /\ Len(args) = 3
    /\ DOMAIN values = {"string"}
    /\ Len(values["string"]) = 2
    /\ args[3] = getValueByIndex(values, "string", 2).val
    /\ args[3] = values["string"][2]
    /\ getValueByIndex(values, "int", -1).err = "NotFound"
    /\ getValueByIndex(values, "string", -1).err = "InvalidIndex"

\* executeStep is about to resolve a parameter through an Initial or a
\* FunctionOutput binding
AtExplicitBinding ==
    /\ AtBinding
    /\ CurrentBinding.Source \in {ArgSourceInitial, ArgSourceFunctionOutput}

\* parameter i of step is default-resolved, and the parameters of its type
\* before it, of which there is one, are all bound explicitly
FirstDefaultAfterExplicit(cfg, step, i) ==
    /\ DefaultResolved(cfg, step, i)
    /\ \E h \in 0..(i - 1) : In(step.Callable, h) = In(step.Callable, i)
    /\ \A h \in 0..(i - 1) :
          In(step.Callable, h) = In(step.Callable, i) => ~DefaultResolved(cfg, step, h)

\* C18: resolving a parameter through an Initial or a FunctionOutput
\* binding, with or without success, leaves every pick counter unchanged; a
\* resolution changes a pick counter only when it is a successful default
\* resolution under UseLatest, and then only the counter of the parameter's
\* type, by one; so a default-resolved parameter that follows only
\* explicitly bound parameters of its type has received the value at index
\* 0 of that type's sequence.
C18_OnlyDefaultAdvances ==
    /\ [][AtExplicitBinding => pickCounters' = pickCounters]_vars
    /\ [][(pc = "args" /\ pickCounters' # pickCounters)
            => /\ AtDefaultParam
               /\ config.MissingArgPolicy = MissingArgPolicyUseLatest
               /\ pc' = "args"
               /\ LET T == In(steps[pos + 1].Callable, Len(args))
                  IN  pickCounters' = MapSet(pickCounters, T,
                                             PickCounter(pickCounters, T) + 1)]_vars
    /\ [](pc = "args" =>
            \A i \in 0..(Len(args) - 1) :
               FirstDefaultAfterExplicit(config, steps[pos + 1], i)
                  => args[i + 1] = values[In(steps[pos + 1].Callable, i)][1])

\* C18 witness: B's first string parameter was bound to A's first output
\* and resolved to it; its second, default-resolved, received the oldest
\* string, another value, and the string counter moved to 1 only then
C18_Witness ==
    /\ pc = "args"
    /\ steps[pos + 1] = Step("B", "sink")
    /\ "B" \in DOMAIN config.StepConfigs
    /\ config.StepConfigs["B"] = <<FunctionOutput("A", 0), Default>>
    /\ Len(args) = 2
    /\ args[1] = stepOutputs["A"][1]
    /\ args[2] = values["string"][1]
    /\ args[1] # args[2]
    /\ PickCounter(pickCounters, "string") = 1

\* C19: in every state and for every type T the pick counter c(T) is at
\* least 0, at most the last index of T's sequence when T has values, and 0
\* when it has none; so when Execute resolves a parameter by default under
\* UseLatest the index it asks for is neither negative nor past the end,
\* and the resolution fails only when no value of the type is stored, with
\* NotFound.
C19_PickCounterBound ==
    /\ [](\A T \in Types :
            LET c == PickCounter(pickCounters, T)
                len == Len(SliceAt(values, T))
            IN  /\ 0 <= c
                /\ len > 0 => c <= len - 1
                /\ len = 0 => c = 0)
    /\ [](DOMAIN pickCounters \subseteq Types)
    /\ [][(AtDefaultParam /\ config.MissingArgPolicy = MissingArgPolicyUseLatest)
            => LET T == In(steps[pos + 1].Callable, Len(args))
                   len == Len(SliceAt(values, T))
               IN  IF len = 0
                   THEN pc' = "idle" /\ ret' = Return(<<>>, "NotFound")
                   ELSE /\ pc' = "args"
                        /\ args' = Append(args, values[T][PickCounter(pickCounters, T) + 1])]_vars

\* C19 witness: with two strings stored a step resolved three string
\* parameters by default; the counter stopped at 1, the last index, and the
\* int counter, with no int stored, is 0
C19_Witness ==
    /\ pc = "args"
    /\ Len(args) = 3
    /\ \A i \in 0..2 : ~HasBinding(config, steps[pos + 1].Name, i)
    /\ Len(SliceAt(values, "string")) = 2
    /\ Len(SliceAt(values, "int")) = 0
    /\ PickCounter(pickCounters, "string") = 1
    /\ PickCounter(pickCounters, "int") = 0

\* every value of the output log
LoggedValues(outs) == UNION { Range(outs[n]) : n \in DOMAIN outs }

\* how many values the output log holds, over all names
TotalLogged(outs) == SumLens(outs, DOMAIN outs)

\* C20: in every state the number of values over all type sequences is the
\* number of initial inputs plus the number of values in the output log,
\* and the stored values are the initial inputs and the logged values; the
\* log changes only by an invocation, which appends its results to the
\* sequence of the step's name and stores the same results (so the log of a
\* name is the concatenation, in invocation order, of the results of the
\* invocations of steps with that name: in a first run, of the run's
\* invocations); a failed step adds to neither.
C20_StoreLogConsistency ==
    /\ [](TotalValues(values) = Len(initialValues) + TotalLogged(stepOutputs))
    /\ [](StoredValues(values) = Range(initialValues) \cup LoggedValues(stepOutputs))
    /\ [](runs <= 1 => stepOutputs = LogOfCalls(calls))
    /\ [][Invokes
            => LET res == calls'[Len(calls')].results
                   n == steps[pos + 1].Name
               IN  /\ stepOutputs' = MapSet(stepOutputs, n, SliceAt(stepOutputs, n) \o res)
                   /\ values' = StoreResults(values, res)
                   /\ TotalValues(values') = TotalValues(values) + Len(res)
                   /\ TotalLogged(stepOutputs') = TotalLogged(stepOutputs) + Len(res)]_vars
    /\ [][~Invokes => stepOutputs' = stepOutputs]_vars
    /\ [][ResolutionFails => UNCHANGED <<values, stepOutputs>>]_vars

\* C20 witness: with one initial input, a first run invoked two steps both
\* named A; the log of A is the results of the first followed by those of
\* the second, and the store holds four values
C20_Witness ==
    /\ Succeeded
    /\ runs = 1
    /\ steps = <<Step("A", "src"), Step("A", "len")>>
    /\ Len(initialValues) = 1
    /\ Len(calls) = 2
    /\ stepOutputs["A"] = calls[1].results \o calls[2].results
    /\ Len(stepOutputs["A"]) = 3
    /\ TotalValues(values) = 4

====
